---------------------------- MODULE Spec2Model ----------------------------
(***************************************************************************)
(* A model of xlog_analyzer.py (credativ/pg_xlog_analyzer): the line       *)
(* classification and statistics accumulation of parse_xlogdump_output,    *)
(* the summary rollup of main and the ranking of print_top_n_relations.    *)
(*                                                                         *)
(* Text is modelled as sequences of one-character strings, so that the     *)
(* regular expressions and str.split are computed on characters.  Python 2 *)
(* integer division "/" is \div.  A dict is a function; its key set is its *)
(* DOMAIN.  An uncaught exception is the state pc = "error".               *)
(***************************************************************************)
EXTENDS Integers, Sequences, FiniteSets, TLC

VARIABLES
    pc,                  \* position of the modelled caller
    xlog_stats,          \* the statistics dict being filled (init_xlog_stats)
    output,              \* history: the text passed to the call (SpecScenario)
    pending,             \* lines of output.split("\n") not yet iterated
    calls,               \* number of calls that were passed this xlog_stats
    err,                 \* the uncaught exception, "none" if there is none
    args,                \* main: the parsed command line (summary, xlog_segment)
    overall_xlog_stats,  \* main: the overall statistics of a summary
    seg,                 \* main: number of segments already processed
    merged,              \* history: the per-segment statistics accumulated so far
    relations,           \* print_top_n_relations: the relations argument
    n,                   \* print_top_n_relations: the n argument
    top_n_relations,     \* print_top_n_relations: the sorted list of items
    i,                   \* print_top_n_relations: index of the enumerate loop
    printed              \* print_top_n_relations: the relation lines written

vars == <<pc, xlog_stats, output, pending, calls, err, args, overall_xlog_stats, seg, merged,
          relations, n, top_n_relations, i, printed>>

parse_vars == <<pc, xlog_stats, output, pending, calls, err>>
main_vars == <<args, overall_xlog_stats, seg, merged>>
rank_vars == <<relations, n, top_n_relations, i, printed>>

-----------------------------------------------------------------------------
(* Bounds of the model. *)

\* Largest value of xlog_stats["count"] one statistics dict is driven to.
MaxCount == 4

-----------------------------------------------------------------------------
(* Dicts. *)

EmptyDict == [k \in {} |-> 0]

DictSet(d, k, v) == [x \in (DOMAIN d) \cup {k} |-> IF x = k THEN v ELSE d[x]]

\* dict.update(other): every key of other is bound to other's value.
DictUpdate(d, other) ==
    [x \in (DOMAIN d) \cup (DOMAIN other) |->
        IF x \in DOMAIN other THEN other[x] ELSE d[x]]

SetMax(S) == CHOOSE x \in S : \A y \in S : y <= x

SetMin(S) == CHOOSE x \in S : \A y \in S : x <= y

-----------------------------------------------------------------------------
(* Characters, literals of the regular expressions. *)

Digits == {"0", "1", "2", "3", "4", "5", "6", "7", "8", "9"}

NL == "\n"

S_Heap == <<" ", "H", "e", "a", "p", " ">>
S_Heap2 == <<" ", "H", "e", "a", "p", "2">>
S_Btree == <<" ", "B", "t", "r", "e", "e">>
S_Transaction == <<" ", "T", "r", "a", "n", "s", "a", "c", "t", "i", "o", "n">>
S_insert == <<" ", "i", "n", "s", "e", "r", "t">>
S_update == <<" ", "u", "p", "d", "a", "t", "e">>
S_hotupdate == <<" ", "h", "o", "t", "u", "p", "d", "a", "t", "e">>
S_delete == <<" ", "d", "e", "l", "e", "t", "e">>
S_commit == <<" ", "c", "o", "m", "m", "i", "t">>
S_abort == <<" ", "a", "b", "o", "r", "t">>
S_rel == <<"r", "e", "l", " ">>
S_tid == <<"t", "i", "d", " ">>
S_bkp == <<"b", "k", "p", ":", " ">>

\* The flag values of Python's re module, as written at the two match calls.
RE_I == 2
RE_M == 8

\* re_page.match(line, re.M|re.I) and re_bkp.match(line, re.M|re.I): the
\* second argument of a compiled pattern's match is pos, the 0-based index
\* at which the match must start.  The two flags have disjoint bits, so the
\* bitwise or is their sum.
MatchPos == RE_I + RE_M

\* lit occurs in line at (1-based) index k.
At(line, k, lit) ==
    /\ k >= 1
    /\ k + Len(lit) - 1 <= Len(line)
    /\ SubSeq(line, k, k + Len(lit) - 1) = lit

\* pattern.search(line) for a pattern that is a literal.
Search(lit, line) == \E k \in 1..Len(line) : At(line, k, lit)

IsDigitAt(line, k) == k >= 1 /\ k <= Len(line) /\ line[k] \in Digits

\* The index after the longest run of digits that starts at k ([0-9]*).
RECURSIVE DigitRunEnd(_, _)
DigitRunEnd(line, k) ==
    IF IsDigitAt(line, k) THEN DigitRunEnd(line, k + 1) ELSE k

IsCharAt(line, k, c) == k >= 1 /\ k <= Len(line) /\ line[k] = c

\* With "rel " at index k: the index of the first character of group 1 of
\* rel\ [0-9]*\/[0-9]*\/([0-9]*), or 0 when the path does not match there.
RelGroupStart(line, k) ==
    LET a == DigitRunEnd(line, k + Len(S_rel))
        b == DigitRunEnd(line, a + 1)
    IN  IF At(line, k, S_rel) /\ IsCharAt(line, a, "/") /\ IsCharAt(line, b, "/")
        THEN b + 1
        ELSE 0

\* The indexes at which "tid " stands at or after index k.
TidAfter(line, k) == {j \in k..Len(line) : At(line, j, S_tid)}

\* The rest of re_page matches with "rel " at index k.
PageMatchAt(line, k) ==
    /\ RelGroupStart(line, k) # 0
    /\ TidAfter(line, DigitRunEnd(line, RelGroupStart(line, k))) # {}

NoMatch == [matched |-> FALSE]

\* re_page = .*rel\ [0-9]*\/[0-9]*\/([0-9]*).*tid\ ([0-9]*).* matched from
\* pos: the greedy leading .* takes the last "rel " from which the rest
\* matches, the greedy inner .* the last "tid "; the groups are the longest
\* digit runs.
RePageMatch(line) ==
    LET cands == {k \in (MatchPos + 1)..Len(line) : PageMatchAt(line, k)}
    IN  IF cands = {} THEN NoMatch
        ELSE LET k  == SetMax(cands)
                 g1 == RelGroupStart(line, k)
                 e1 == DigitRunEnd(line, g1)
                 j  == SetMax(TidAfter(line, e1))
                 g2 == j + Len(S_tid)
             IN  [matched  |-> TRUE,
                  relation |-> SubSeq(line, g1, e1 - 1),
                  page     |-> SubSeq(line, g2, DigitRunEnd(line, g2) - 1)]

\* "bkp: " at index k followed by four digits.
BkpMatchAt(line, k) ==
    /\ At(line, k, S_bkp)
    /\ \A d \in 0..3 : IsDigitAt(line, k + Len(S_bkp) + d)

\* re_bkp = .*bkp:\ ([0-9])([0-9])([0-9])([0-9]).* matched from pos.
ReBkpMatch(line) ==
    LET cands == {k \in (MatchPos + 1)..Len(line) : BkpMatchAt(line, k)}
    IN  IF cands = {} THEN NoMatch
        ELSE LET k == SetMax(cands)
             IN  [matched |-> TRUE,
                  groups  |-> SubSeq(line, k + Len(S_bkp), k + Len(S_bkp) + 3)]

\* The loop over range(1, 5): one increment per group equal to "1".
BkpIncrement(line) ==
    LET m == ReBkpMatch(line)
    IN  IF m.matched
        THEN Cardinality({g \in 1..4 : m.groups[g] = "1"})
        ELSE 0

\* output.splitlines() in the place of output.split("\n"): no empty last
\* line after a final newline.
RECURSIVE SplitLines(_)
SplitLines(text) ==
    LET nls == {k \in 1..Len(text) : text[k] = NL}
    IN  IF text = <<>> THEN <<>>
        ELSE IF nls = {} THEN <<text>>
        ELSE LET k == SetMin(nls)
             IN  <<SubSeq(text, 1, k - 1)>>
                   \o SplitLines(SubSeq(text, k + 1, Len(text)))

\* output.split("\n")
RECURSIVE Split(_)
Split(text) ==
    LET nls == {k \in 1..Len(text) : text[k] = NL}
    IN  IF nls = {} THEN <<text>>
        ELSE LET k == SetMin(nls)
             IN  <<SubSeq(text, 1, k - 1)>>
                   \o Split(SubSeq(text, k + 1, Len(text)))

-----------------------------------------------------------------------------
(* init_xlog_stats and parse_xlogdump_output. *)

init_xlog_stats ==
    [count                      |-> 0,
     n_heap                     |-> 0,
     n_heap2                    |-> 0,
     n_btree                    |-> 0,
     n_transaction              |-> 0,
     n_other                    |-> 0,
     n_relation                 |-> 0,
     n_page                     |-> 0,
     n_distinct_relation        |-> 0,
     n_distinct_page            |-> 0,
     n_bkp                      |-> 0,
     n_avg_page_per_relation    |-> 0,
     n_avg_page_per_transaction |-> 0,
     n_insert                   |-> 0,
     n_update                   |-> 0,
     n_hotupdate                |-> 0,
     n_delete                   |-> 0,
     n_commit                   |-> 0,
     n_abort                    |-> 0,
     relations                  |-> EmptyDict]

Hit(lit, line) == IF Search(lit, line) THEN 1 ELSE 0

\* Lines 231 to 251: the line count and the ten independent pattern tests.
CountKinds(s, line) ==
    [s EXCEPT !.count         = @ + 1,
              !.n_heap        = @ + Hit(S_Heap, line),
              !.n_heap2       = @ + Hit(S_Heap2, line),
              !.n_btree       = @ + Hit(S_Btree, line),
              !.n_transaction = @ + Hit(S_Transaction, line),
              !.n_insert      = @ + Hit(S_insert, line),
              !.n_update      = @ + Hit(S_update, line),
              !.n_hotupdate   = @ + Hit(S_hotupdate, line),
              !.n_delete      = @ + Hit(S_delete, line),
              !.n_commit      = @ + Hit(S_commit, line),
              !.n_abort       = @ + Hit(S_abort, line)]

\* relations[relation] = {} without the test "not relation in relations".
AddRelationAlways(rels, relation) == DictSet(rels, relation, EmptyDict)

\* Lines 265 to 267: a relation not yet in the dict gets an empty page dict.
AddRelation(rels, relation) ==
    IF relation \in DOMAIN rels THEN rels ELSE DictSet(rels, relation, EmptyDict)

\* Lines 269 to 273: a page not yet in the relation's dict starts at 0; the
\* page's occurrence count is incremented.
AddPage(pages, page) ==
    DictSet(pages, page, (IF page \in DOMAIN pages THEN pages[page] ELSE 0) + 1)

\* Lines 253 to 273: the page reference of a line.
CountPage(s, line) ==
    LET m == RePageMatch(line)
    IN  IF ~m.matched THEN s
        ELSE LET isNewRel  == m.relation \notin DOMAIN s.relations
                 rels      == AddRelation(s.relations, m.relation)
                 isNewPage == m.page \notin DOMAIN rels[m.relation]
             IN  [s EXCEPT
                    !.n_relation          = @ + 1,
                    !.n_page              = @ + 1,
                    !.n_distinct_relation = @ + (IF isNewRel THEN 1 ELSE 0),
                    !.n_distinct_page     = @ + (IF isNewPage THEN 1 ELSE 0),
                    !.relations           =
                        DictSet(rels, m.relation, AddPage(rels[m.relation], m.page))]

\* Lines 275 to 283: the backup pages of a line.
CountBkp(s, line) == [s EXCEPT !.n_bkp = @ + BkpIncrement(line)]

\* One iteration of the loop over the lines (lines 230 to 283).
IngestLine(s, line) == CountBkp(CountPage(CountKinds(s, line), line), line)

\* Lines 286 to 290.
SetOther(s) ==
    [s EXCEPT !.n_other =
        s.count - (s.n_heap + s.n_heap2 + s.n_btree + s.n_transaction)]

\* Lines 293 to 297: both averages are computed under the one test of
\* n_distinct_relation; the second division raises ZeroDivisionError when
\* n_transaction is 0.
AvgRaises(s) == s.n_distinct_relation # 0 /\ s.n_transaction = 0

SetAverages(s) ==
    IF s.n_distinct_relation # 0
    THEN [s EXCEPT
            !.n_avg_page_per_relation    = s.n_distinct_page \div s.n_distinct_relation,
            !.n_avg_page_per_transaction = s.n_page \div s.n_transaction]
    ELSE s

\* The statistics as the exception leaves them: n_avg_page_per_relation is
\* assigned before the second division is evaluated.
SetAveragesRaised(s) ==
    [s EXCEPT !.n_avg_page_per_relation =
                  s.n_distinct_page \div s.n_distinct_relation]

RECURSIVE IngestAll(_, _)
IngestAll(s, lines) ==
    IF lines = <<>> THEN s
    ELSE IngestAll(IngestLine(s, Head(lines)), Tail(lines))

\* parse_xlogdump_output(output, xlog_stats) as one call: the statistics it
\* returns, or raised = TRUE when it ends in ZeroDivisionError.
parse_xlogdump_output(text, s) ==
    LET t == SetOther(IngestAll(s, Split(text)))
    IN  IF AvgRaises(t)
        THEN [raised |-> TRUE, stats |-> SetAveragesRaised(t)]
        ELSE [raised |-> FALSE, stats |-> SetAverages(t)]

-----------------------------------------------------------------------------
(* The dump texts the model feeds to parse_xlogdump_output. *)

\* ... Heap ... rel 1/2/100 ... tid 5 ...
L_heap_100_5 ==
    <<".", ".", ".", " ", "H", "e", "a", "p", " ", ".", ".", ".", " ", "r",
      "e", "l", " ", "1", "/", "2", "/", "1", "0", "0", " ", ".", ".", ".",
      " ", "t", "i", "d", " ", "5", " ", ".", ".", ".">>
\* ... Btree ...
L_btree ==
    <<".", ".", ".", " ", "B", "t", "r", "e", "e", " ", ".", ".", ".">>
\* ... bkp: 1011 ...
L_bkp_early ==
    <<".", ".", ".", " ", "b", "k", "p", ":", " ", "1", "0", "1", "1", " ",
      ".", ".", ".">>
\* rmgr: Transaction bkp: 0000 commit
L_tx ==
    <<"r", "m", "g", "r", ":", " ", "T", "r", "a", "n", "s", "a", "c", "t",
      "i", "o", "n", " ", "b", "k", "p", ":", " ", "0", "0", "0", "0", " ",
      "c", "o", "m", "m", "i", "t">>
\* rmgr: Heap2 bkp: 1011 rel 1/2/200; tid 7
L_heap2_200_7 ==
    <<"r", "m", "g", "r", ":", " ", "H", "e", "a", "p", "2", " ", "b", "k",
      "p", ":", " ", "1", "0", "1", "1", " ", "r", "e", "l", " ", "1", "/",
      "2", "/", "2", "0", "0", ";", " ", "t", "i", "d", " ", "7">>
\* rmgr: Heap  bkp: 0100 hotupdate: rel 1/2/100; tid 7
L_hot_100_7 ==
    <<"r", "m", "g", "r", ":", " ", "H", "e", "a", "p", " ", " ", "b", "k",
      "p", ":", " ", "0", "1", "0", "0", " ", "h", "o", "t", "u", "p", "d",
      "a", "t", "e", ":", " ", "r", "e", "l", " ", "1", "/", "2", "/", "1",
      "0", "0", ";", " ", "t", "i", "d", " ", "7">>

\* The lines a dump text is made of; the empty line is what split leaves
\* after a final newline.
LinePool ==
    {L_heap_100_5, L_btree, L_bkp_early, L_tx, L_heap2_200_7, L_hot_100_7,
     <<>>}

\* The text whose lines are ls: the lines joined by newlines.
RECURSIVE JoinLines(_)
JoinLines(ls) ==
    IF Len(ls) = 1 THEN ls[1]
    ELSE ls[1] \o <<NL>> \o JoinLines(Tail(ls))

\* The texts of k lines of a pool.
TextsOf(pool, k) == {JoinLines(ls) : ls \in [1..k -> pool]}

Texts(k) == TextsOf(LinePool, k)

-----------------------------------------------------------------------------
(* SpecParse: a caller of parse_xlogdump_output.  The first call passes no  *)
(* xlog_stats (a new dict is created); a later call passes the dict the     *)
(* previous call returned.                                                  *)

MainIdle ==
    /\ args = [summary |-> FALSE, xlog_segment |-> 0]
    /\ overall_xlog_stats = init_xlog_stats
    /\ seg = 0
    /\ merged = <<>>

RankIdle ==
    /\ relations = EmptyDict
    /\ n = 0
    /\ top_n_relations = <<>>
    /\ i = 0
    /\ printed = <<>>

InitParse ==
    /\ pc = "idle"
    /\ xlog_stats = init_xlog_stats
    /\ output = <<>>
    /\ pending = <<>>
    /\ calls = 0
    /\ err = "none"
    /\ MainIdle
    /\ RankIdle

\* The call: lines 209 to 230, up to the evaluation of output.split("\n").
StartParse ==
    /\ pc \in {"idle", "done"}
    /\ \E k \in 1..(MaxCount - xlog_stats.count) :
         \E text \in Texts(k) : pending' = Split(text)
    /\ calls' = calls + 1
    /\ pc' = "loop"
    /\ UNCHANGED <<xlog_stats, output, err, main_vars, rank_vars>>

\* One iteration of the for loop.
IngestStep ==
    /\ pc = "loop"
    /\ pending # <<>>
    /\ xlog_stats' = IngestLine(xlog_stats, Head(pending))
    /\ pending' = Tail(pending)
    /\ UNCHANGED <<pc, output, calls, err, main_vars, rank_vars>>

\* After the loop: lines 286 to 299.
Finalize ==
    /\ pc = "loop"
    /\ pending = <<>>
    /\ IF AvgRaises(SetOther(xlog_stats))
       THEN /\ xlog_stats' = SetAveragesRaised(SetOther(xlog_stats))
            /\ pc' = "error"
            /\ err' = "ZeroDivisionError"
       ELSE /\ xlog_stats' = SetAverages(SetOther(xlog_stats))
            /\ pc' = "done"
            /\ err' = err
    /\ UNCHANGED <<output, pending, calls, main_vars, rank_vars>>

NextParse == StartParse \/ IngestStep \/ Finalize

SpecParse == InitParse /\ [][NextParse]_vars

-----------------------------------------------------------------------------
(* SpecScenario: one call of parse_xlogdump_output without xlog_stats, on   *)
(* a text of the lines of the scenario of the specification's section 8;    *)
(* the text is recorded in output.                                          *)

\* The lines of the scenario, and a Transaction line.
ScenarioPool == {L_heap_100_5, L_btree, L_tx, <<>>}

StartScenario ==
    /\ pc = "idle"
    /\ \E k \in 1..MaxCount :
         \E text \in TextsOf(ScenarioPool, k) :
            /\ output' = text
            /\ pending' = Split(text)
    /\ calls' = calls + 1
    /\ pc' = "loop"
    /\ UNCHANGED <<xlog_stats, err, main_vars, rank_vars>>

NextScenario == StartScenario \/ IngestStep \/ Finalize

SpecScenario == InitParse /\ [][NextScenario]_vars

-----------------------------------------------------------------------------
(* Claims about parse_xlogdump_output, checked under SpecParse. *)

\* The sum of f[x] over the set S.
RECURSIVE SumOver(_, _)
SumOver(f, S) ==
    IF S = {} THEN 0
    ELSE LET x == CHOOSE y \in S : TRUE
         IN  f[x] + SumOver(f, S \ {x})

\* Number of (relation, page) pairs of a relation->page map.
NumPairs(rels) ==
    SumOver([r \in DOMAIN rels |-> Cardinality(DOMAIN rels[r])], DOMAIN rels)

\* Sum of all occurrence counts of a relation->page map.
NumOccurrences(rels) ==
    SumOver([r \in DOMAIN rels |-> SumOver(rels[r], DOMAIN rels[r])], DOMAIN rels)

\* The occurrence count of a pair, 0 when the map does not hold it.
Occ(rels, r, p) ==
    IF r \in DOMAIN rels /\ p \in DOMAIN rels[r] THEN rels[r][p] ELSE 0

\* The loop is about to ingest a line.
AtLine == pc = "loop" /\ pending # <<>>

\* C1: finalizing the statistics never fails with a division by zero: no
\* call ends in ZeroDivisionError, and after a call a zero distinct-relation
\* count leaves pages-per-relation 0 and a zero transaction count leaves
\* pages-per-transaction 0.
C1_FinalizeNeverDividesByZero ==
    /\ err # "ZeroDivisionError"
    /\ pc = "done" =>
         /\ xlog_stats.n_distinct_relation = 0 =>
                xlog_stats.n_avg_page_per_relation = 0
         /\ xlog_stats.n_transaction = 0 =>
                xlog_stats.n_avg_page_per_transaction = 0

\* The counters of C7 agree with the relation->page map.
CountersMatchMap ==
    /\ xlog_stats.n_distinct_relation = Cardinality(DOMAIN xlog_stats.relations)
    /\ xlog_stats.n_distinct_page = NumPairs(xlog_stats.relations)
    /\ NumOccurrences(xlog_stats.relations) = xlog_stats.n_page
    /\ xlog_stats.n_page = xlog_stats.n_relation

\* What one ingested line does to the counters of C7.
PageStepOk ==
    AtLine =>
      LET m  == RePageMatch(Head(pending))
          s  == xlog_stats
          t  == xlog_stats'
      IN  IF m.matched
          THEN /\ t.n_relation = s.n_relation + 1
               /\ t.n_page = s.n_page + 1
               /\ Occ(t.relations, m.relation, m.page)
                    = Occ(s.relations, m.relation, m.page) + 1
               /\ t.n_distinct_relation - s.n_distinct_relation
                    = (IF m.relation \in DOMAIN s.relations THEN 0 ELSE 1)
               /\ t.n_distinct_page - s.n_distinct_page
                    = (IF Occ(s.relations, m.relation, m.page) = 0 THEN 1 ELSE 0)
          ELSE /\ t.n_relation = s.n_relation
               /\ t.n_page = s.n_page
               /\ t.n_distinct_relation = s.n_distinct_relation
               /\ t.n_distinct_page = s.n_distinct_page
               /\ t.relations = s.relations

\* C7: within one statistics dict, over any sequence of ingested lines and
\* calls, a page reference adds 1 to n_relation, n_page and the pair's
\* occurrence count, n_distinct_relation grows by 1 exactly for a relation
\* new to the map, n_distinct_page by 1 exactly for a new pair; so always
\* n_distinct_relation is the number of relations of the map,
\* n_distinct_page its number of pairs, and the occurrence counts sum to
\* n_page = n_relation.
C7_PageCountersConsistent == []CountersMatchMap /\ [][PageStepOk]_vars

\* C7's case: a dict filled by one call is passed to a second call, and a
\* relation holds two pages of which one was referenced twice.
C7_Witness ==
    /\ calls = 2
    /\ \E r \in DOMAIN xlog_stats.relations :
         /\ Cardinality(DOMAIN xlog_stats.relations[r]) = 2
         /\ \E p \in DOMAIN xlog_stats.relations[r] :
                xlog_stats.relations[r][p] = 2

\* The set bits of the backup flags of a line as C8 reads them: the last
\* marker "bkp: " that exactly four digits follow, wherever it stands.
MarkerBits(line) ==
    LET ks == {k \in 1..Len(line) :
                 /\ BkpMatchAt(line, k)
                 /\ ~IsDigitAt(line, k + Len(S_bkp) + 4)}
    IN  IF ks = {} THEN 0
        ELSE Cardinality({d \in 0..3 : line[SetMax(ks) + Len(S_bkp) + d] = "1"})

\* C8: ingesting a line changes n_bkp by exactly the number of set bits of
\* the line's backup flags, wherever in the line the marker stands; a line
\* without a marker that exactly four digits follow adds 0.
C8_BkpCountsSetBits ==
    [][AtLine =>
         xlog_stats'.n_bkp - xlog_stats.n_bkp = MarkerBits(Head(pending))]_vars

\* The text of C9: two Heap lines referencing relation 100, tid 5, and a
\* Btree line, each ended by a newline.
ScenarioText ==
    JoinLines(<<L_heap_100_5, L_heap_100_5, L_btree, <<>> >>)

\* The loop of a first call has ingested every line of the scenario text.
ScenarioIngested ==
    /\ output = ScenarioText
    /\ calls = 1
    /\ pending = <<>>
    /\ pc \in {"loop", "done", "error"}

ScenarioRelations ==
    DictSet(EmptyDict, <<"1", "0", "0">>, DictSet(EmptyDict, <<"5">>, 2))

ScenarioCounters(cnt) ==
    /\ xlog_stats.count = cnt
    /\ xlog_stats.n_heap = 2
    /\ xlog_stats.n_btree = 1
    /\ xlog_stats.n_relation = 2
    /\ xlog_stats.n_page = 2
    /\ xlog_stats.n_distinct_relation = 1
    /\ xlog_stats.n_distinct_page = 1
    /\ xlog_stats.relations = ScenarioRelations

-----------------------------------------------------------------------------
(* Spec: main with a list of xlog segments and, or not, --summary.  The     *)
(* text pg_xlogdump prints for a segment (read_xlog_file) is any text of    *)
(* at most MaxSegLines lines of the pool.  print_xlog_stats only writes to  *)
(* stdout and changes no state; its call of print_top_n_relations is        *)
(* SpecRank.                                                                *)

\* Largest number of xlog segments on the command line.
MaxSegments == 2

\* Largest number of lines of one segment's dump.
MaxSegLines == 2

SegmentTexts == UNION {Texts(k) : k \in 1..MaxSegLines}

\* Lines 445 to 449: every entry of xlog_stats is accumulated into
\* overall_xlog_stats, a dict entry by dict.update, a number by +=.
Accumulate(overall, s) ==
    [entry \in DOMAIN s |->
        IF entry = "relations"
        THEN DictUpdate(overall[entry], s[entry])
        ELSE overall[entry] + s[entry]]

\* Lines 457 and 458, for a non-empty list of segments.
FixAverages(overall, nseg) ==
    [overall EXCEPT
        !.n_avg_page_per_relation    = @ \div nseg,
        !.n_avg_page_per_transaction = @ \div nseg]

ParseIdle ==
    /\ xlog_stats = init_xlog_stats
    /\ output = <<>>
    /\ pending = <<>>
    /\ calls = 0

Init ==
    /\ pc = "main"
    /\ args \in [summary : BOOLEAN, xlog_segment : 0..MaxSegments]
    /\ overall_xlog_stats = init_xlog_stats
    /\ seg = 0
    /\ merged = <<>>
    /\ err = "none"
    /\ ParseIdle
    /\ RankIdle

\* One iteration of the loop over args.xlog_segment (lines 435 to 453).
ProcessSegment ==
    /\ pc = "main"
    /\ seg < args.xlog_segment
    /\ \E xlogdump_out \in SegmentTexts :
         LET r == parse_xlogdump_output(xlogdump_out, init_xlog_stats)
         IN  IF r.raised
             THEN /\ pc' = "error"
                  /\ err' = "ZeroDivisionError"
                  /\ UNCHANGED <<xlog_stats, overall_xlog_stats, seg, merged>>
             ELSE /\ xlog_stats' = r.stats
                  /\ overall_xlog_stats' =
                        IF args.summary
                        THEN Accumulate(overall_xlog_stats, r.stats)
                        ELSE overall_xlog_stats
                  /\ merged' = IF args.summary THEN Append(merged, r.stats)
                               ELSE merged
                  /\ seg' = seg + 1
                  /\ UNCHANGED <<pc, err>>
    /\ UNCHANGED <<args, output, pending, calls, rank_vars>>

\* After the loop (lines 455 to 460): len(args.xlog_segment) divides the
\* accumulated averages; with no segment the division raises.
Summarize ==
    /\ pc = "main"
    /\ seg = args.xlog_segment
    /\ IF ~args.summary
       THEN /\ pc' = "exit"
            /\ UNCHANGED <<overall_xlog_stats, err>>
       ELSE IF args.xlog_segment = 0
            THEN /\ pc' = "error"
                 /\ err' = "ZeroDivisionError"
                 /\ UNCHANGED overall_xlog_stats
            ELSE /\ pc' = "exit"
                 /\ overall_xlog_stats' =
                        FixAverages(overall_xlog_stats, args.xlog_segment)
                 /\ UNCHANGED err
    /\ UNCHANGED <<args, seg, merged, xlog_stats, output, pending, calls,
                   rank_vars>>

Next == ProcessSegment \/ Summarize

Spec == Init /\ [][Next]_vars

-----------------------------------------------------------------------------
(* Claims about the summary rollup, checked under Spec. *)

\* C2: after merging any sequence of per-input statistics, the overall
\* distinct-relation count is the number of relations of the merged map and
\* the overall distinct-page count its number of (relation, page) pairs.
C2_OverallDistinctFromMergedMap ==
    args.summary =>
      /\ overall_xlog_stats.n_distinct_relation
           = Cardinality(DOMAIN overall_xlog_stats.relations)
      /\ overall_xlog_stats.n_distinct_page
           = NumPairs(overall_xlog_stats.relations)

\* The relations and the pages of the inputs merged so far.
MergedRelations == UNION {DOMAIN merged[k].relations : k \in 1..Len(merged)}

MergedPages ==
    UNION {UNION {DOMAIN merged[k].relations[r] : r \in DOMAIN merged[k].relations} :
             k \in 1..Len(merged)}

\* C3: the overall map is the union with sum of the inputs' maps: every
\* pair's overall occurrence count is the sum of its counts over the merged
\* inputs (a pair no input holds is absent).
C3_MergeIsUnionWithSum ==
    args.summary =>
      /\ DOMAIN overall_xlog_stats.relations = MergedRelations
      /\ \A r \in MergedRelations : \A p \in MergedPages :
            Occ(overall_xlog_stats.relations, r, p)
              = SumOver([k \in 1..Len(merged) |-> Occ(merged[k].relations, r, p)],
                        1..Len(merged))

\* C5: after the rollup the overall pages-per-relation is the merged map's
\* distinct pages over its distinct relations, and the overall
\* pages-per-transaction the total pages over the total transaction
\* records, not the mean of the inputs' averages.
C5_OverallAveragesFromTotals ==
    (pc = "exit" /\ args.summary) =>
      /\ overall_xlog_stats.relations # EmptyDict =>
            overall_xlog_stats.n_avg_page_per_relation
              = NumPairs(overall_xlog_stats.relations)
                  \div Cardinality(DOMAIN overall_xlog_stats.relations)
      /\ overall_xlog_stats.n_transaction # 0 =>
            overall_xlog_stats.n_avg_page_per_transaction
              = overall_xlog_stats.n_page \div overall_xlog_stats.n_transaction

\* C6: a summary of zero inputs is rejected with EmptyInputSet, and no
\* division by the input count 0 is executed.
C6_EmptyInputSetRejected ==
    (args.summary /\ args.xlog_segment = 0 /\ pc # "main") =>
        (pc = "error" /\ err = "EmptyInputSet")

-----------------------------------------------------------------------------
(* SpecRank: print_top_n_relations(relations, n) on any map of at most      *)
(* three relations and any n in 0..MaxLimit.                                *)

\* Largest n (--top_n_relations) passed to print_top_n_relations.
MaxLimit == 3

RankRelIds == {<<"1", "0", "0">>, <<"2", "0", "0">>, <<"3", "0", "0">>}

RankPageIds == {<<"5">>, <<"7">>, <<"9">>}

\* The page dicts of a relation: one or more pages, each seen once.
RankPageDicts == {[p \in P |-> 1] : P \in (SUBSET RankPageIds) \ {{}}}

RankMaps == UNION {[R -> RankPageDicts] : R \in SUBSET RankRelIds}

\* The sequences that list every element of S once: the orders in which
\* relations.items() may list the dict's keys.
Orders(S) ==
    {o \in [1..Cardinality(S) -> S] : \A a, b \in DOMAIN o : o[a] = o[b] => a = b}

\* The key of the sort: len(x[1]), the number of pages of the relation.
SortKey(rels, rel) == Cardinality(DOMAIN rels[rel])

\* rel put into a list sorted by descending key, after every entry whose
\* key is not smaller: equal keys keep their order.
RECURSIVE InsertSorted(_, _, _)
InsertSorted(rels, sorted, rel) ==
    IF sorted = <<>> THEN <<rel>>
    ELSE IF SortKey(rels, Head(sorted)) >= SortKey(rels, rel)
         THEN <<Head(sorted)>> \o InsertSorted(rels, Tail(sorted), rel)
         ELSE <<rel>> \o sorted

\* sorted(items, key=lambda x: len(x[1]), reverse=True): a stable sort;
\* reverse=True keeps the original order of equal keys.
RECURSIVE SortedDesc(_, _)
SortedDesc(rels, items) ==
    IF items = <<>> THEN <<>>
    ELSE InsertSorted(rels, SortedDesc(rels, SubSeq(items, 1, Len(items) - 1)),
                      items[Len(items)])

\* The test "if i > n: break" of the loop.
LoopBreaks(idx, limit) == idx > limit

InitRank ==
    /\ pc = "rank"
    /\ relations \in RankMaps
    /\ n \in 0..MaxLimit
    /\ top_n_relations = <<>>
    /\ i = 0
    /\ printed = <<>>
    /\ err = "none"
    /\ ParseIdle
    /\ MainIdle

\* Lines 381 and 382.
SortRelations ==
    /\ pc = "rank"
    /\ \E items \in Orders(DOMAIN relations) :
          top_n_relations' = SortedDesc(relations, items)
    /\ i' = 0
    /\ pc' = "enumerate"
    /\ UNCHANGED <<relations, n, printed, err, xlog_stats, output, pending,
                   calls, main_vars>>

\* One iteration of the loop that does not break: the relation is printed.
PrintRelation ==
    /\ pc = "enumerate"
    /\ i < Len(top_n_relations)
    /\ ~LoopBreaks(i, n)
    /\ printed' = Append(printed,
                         [rel   |-> top_n_relations[i + 1],
                          pages |-> Cardinality(DOMAIN relations[top_n_relations[i + 1]])])
    /\ i' = i + 1
    /\ UNCHANGED <<pc, relations, n, top_n_relations, err, xlog_stats, output,
                   pending, calls, main_vars>>

\* The loop ends: by break, or with the list exhausted.
EndLoop ==
    /\ pc = "enumerate"
    /\ \/ i = Len(top_n_relations)
       \/ i < Len(top_n_relations) /\ LoopBreaks(i, n)
    /\ pc' = "return"
    /\ UNCHANGED <<relations, n, top_n_relations, i, printed, err, xlog_stats,
                   output, pending, calls, main_vars>>

NextRank == SortRelations \/ PrintRelation \/ EndLoop

SpecRank == InitRank /\ [][NextRank]_vars

-----------------------------------------------------------------------------
(* Claims about the ranking, checked under SpecRank. *)

Min(a, b) == IF a <= b THEN a ELSE b

\* C4: the ranking emits exactly min(limit, number of relations) entries for
\* every map and every non-negative limit (none for limit 0), never more
\* than limit.
C4_EmitsMinLimitAvailable ==
    pc = "return" => Len(printed) = Min(n, Cardinality(DOMAIN relations))

DigitValue(c) ==
    CASE c = "0" -> 0 [] c = "1" -> 1 [] c = "2" -> 2 [] c = "3" -> 3
      [] c = "4" -> 4 [] c = "5" -> 5 [] c = "6" -> 6 [] c = "7" -> 7
      [] c = "8" -> 8 [] c = "9" -> 9

\* The number a relationId (a decimal string) denotes.
RECURSIVE RelNum(_)
RelNum(id) ==
    IF id = <<>> THEN 0
    ELSE 10 * RelNum(SubSeq(id, 1, Len(id) - 1)) + DigitValue(id[Len(id)])

\* C10: the ranking lists the relations in descending order of their number
\* of distinct pages, relations with equal numbers in ascending relationId
\* order, so the order is a function of the map's contents.
C10_OrderedWithIdTieBreak ==
    pc = "return" =>
      \A a, b \in DOMAIN printed :
         a < b =>
           \/ printed[a].pages > printed[b].pages
           \/ /\ printed[a].pages = printed[b].pages
              /\ RelNum(printed[a].rel) < RelNum(printed[b].rel)

=============================================================================
